---------------------------- MODULE Spec2Model ----------------------------
(***************************************************************************)
(* Model of src/app.py: a Flask application with three SQLAlchemy models   *)
(* (Customer, Products, Orders), the association table order_products,     *)
(* three marshmallow schemas and ten request handlers.                     *)
(*                                                                         *)
(* One action per request handler. A handler runs to completion inside one *)
(* request: it validates the JSON body, builds the statements of its unit  *)
(* of work and commits them as one transaction of the store.               *)
(*                                                                         *)
(* Strings are drawn from a small table of distinct values; a JSON body is *)
(* the pair (ok, bad): ok maps the keys that carry a value of the declared *)
(* type to that value, bad is the set of keys that carry a value of        *)
(* another type.                                                           *)
(***************************************************************************)
EXTENDS Integers, Sequences, FiniteSets, TLC

VARIABLES
    db,            \* the relational store: tables and AUTO_INCREMENT counters
    foreign_keys,  \* whether the store enforces the declared FOREIGN KEYs
    request,       \* the request served last
    response,      \* its response
    before,        \* the store when that request arrived
    previous       \* the successful write served just before that request

vars == <<db, foreign_keys, request, response, before, previous>>

\* ------------------------------------------------------------------ bounds
MaxCustomers == 2
MaxProducts == 2
MaxOrders == 1
MaxStr == 2
MaxItems == 2
MaxBad == 1

StrTab == <<"ann", "bob", "cat", "dan", "eve">>
Strings == {StrTab[i] : i \in 1..MaxStr}
CustomerIds == 1..MaxCustomers
ProductIds == 1..MaxProducts
OrderIds == 1..MaxOrders

\* a column that holds no value
NULL == "NULL"
\* the result of a point lookup that matched no row (Python's None)
None == 0

Max(a, b) == IF a >= b THEN a ELSE b
Range(s) == {s[i] : i \in 1..Len(s)}

\* ------------------------------------------------------------------ models
\* The rows of a table are a function from primary key to the other columns.
CustomerColumns == {"customer_name", "email", "phone", "address"}

EmptyDb ==
    [customer       |-> [i \in {} |-> [customer_name |-> NULL, email |-> NULL,
                                        phone |-> NULL, address |-> NULL]],
     products       |-> [i \in {} |-> [product_name |-> NULL, price |-> 0]],
     orders         |-> [i \in {} |-> [order_date |-> NULL, customer_id |-> 0]],
     order_products |-> {},
     next           |-> [customer |-> 1, products |-> 1, orders |-> 1]]

\* the rows of the store, without the AUTO_INCREMENT counters
Rows(d) == [customer |-> d.customer, products |-> d.products,
            orders |-> d.orders, order_products |-> d.order_products]

\* date.today()
today == "today"

\* ------------------------------------------------------------ the schemas
CustomerSchema ==
    [fields   |-> {"id", "customer_name", "email", "phone"},
     required |-> {"customer_name"}]

OrderSchema ==
    [fields   |-> {"id", "order_date", "customer_id", "items"},
     required |-> {"customer_id"}]

ProductSchema ==
    [fields   |-> {"id", "product_name", "price"},
     required |-> {"product_name", "price"}]

\* variant of load that accepts every body
load_unchecked(schema, json) ==
    [valid |-> TRUE, messages |-> {}, data |-> json.ok]

\* Schema.load: a key the schema does not declare, a declared key with a
\* value of the wrong type and a required key that is missing each put the
\* key in the messages of the ValidationError; otherwise the result is the
\* map of the keys that are present (an absent key gets no default).
load(schema, json) ==
    LET keys     == (DOMAIN json.ok) \cup json.bad
        messages == json.bad \cup (schema.required \ keys)
                             \cup (keys \ schema.fields)
    IN  [valid |-> messages = {}, messages |-> messages, data |-> json.ok]

\* Schema.dump of a Customer: the fields of Meta.fields
dump_customer(d, id) ==
    [id |-> id, customer_name |-> d.customer[id].customer_name,
     email |-> d.customer[id].email, phone |-> d.customer[id].phone]

dump_product(d, id) ==
    [id |-> id, product_name |-> d.products[id].product_name,
     price |-> d.products[id].price]

\* --------------------------------------------------------------- responses
Response(status, key, text) ==
    [status |-> status, key |-> key, text |-> text, errors |-> {},
     customers |-> {}, products |-> {}]

\* jsonify(e.messages), 400
ValidationResponse(messages) ==
    [status |-> 400, key |-> "", text |-> "", errors |-> messages,
     customers |-> {}, products |-> {}]

\* an exception no handler catches: Flask answers 500
ServerError == Response(500, "", "")

CustomersResponse(rows) ==
    [status |-> 200, key |-> "", text |-> "", errors |-> {},
     customers |-> rows, products |-> {}]

ProductsResponse(rows) ==
    [status |-> 200, key |-> "", text |-> "", errors |-> {},
     customers |-> {}, products |-> rows]

\* ------------------------------------------------------------------- store
\* The statements a unit of work sends to the store. Each is a record
\* [sql, id, to, row, pair].
NoRow == <<>>
InsertCustomer(row) ==
    [sql |-> "insert customer", id |-> 0, to |-> 0, row |-> row, pair |-> <<>>]
UpdateCustomer(id, to, row) ==
    [sql |-> "update customer", id |-> id, to |-> to, row |-> row, pair |-> <<>>]
DeleteCustomer(id) ==
    [sql |-> "delete customer", id |-> id, to |-> 0, row |-> NoRow, pair |-> <<>>]
InsertProduct(row) ==
    [sql |-> "insert products", id |-> 0, to |-> 0, row |-> row, pair |-> <<>>]
InsertOrder(row) ==
    [sql |-> "insert orders", id |-> 0, to |-> 0, row |-> row, pair |-> <<>>]
InsertOrderProduct(order_id, product_id) ==
    [sql |-> "insert order_products", id |-> 0, to |-> 0, row |-> NoRow,
     pair |-> <<order_id, product_id>>]
\* the unit of work finds None in a collection: FlushError
FlushNone ==
    [sql |-> "flush None", id |-> 0, to |-> 0, row |-> NoRow, pair |-> <<>>]

\* rows of orders that reference customer id
OrdersOf(d, id) == {o \in DOMAIN d.orders : d.orders[o].customer_id = id}

Put(table, id, row) ==
    [i \in (DOMAIN table) \cup {id} |-> IF i = id THEN row ELSE table[i]]
Drop(table, id) == [i \in (DOMAIN table) \ {id} |-> table[i]]

\* One statement against the working copy d of the transaction. The result
\* is [ok, rowcount, db]; ok = FALSE is an IntegrityError (or FlushError)
\* and leaves the working copy as it was.
\*
\* The store is the MySQL database of SQLALCHEMY_DATABASE_URI. Its tables
\* are transactional and their primary keys are unique. db.create_all()
\* declares orders.customer_id and both columns of order_products as
\* FOREIGN KEYs without ON DELETE / ON UPDATE rules (so: RESTRICT), but it
\* leaves a table that already exists as it finds it, so whether the store
\* enforces them (foreign_keys, written fk below) is fixed outside the
\* program: both cases are modelled.
\*   - DELETE of a customer row that orders reference: refused under fk.
\*   - UPDATE that changes the primary key of a customer (the setattr loop
\*     writes "id" like any other key): refused when the new key is taken,
\*     and under fk when orders reference the old one; the AUTO_INCREMENT
\*     counter moves past a key written this way.
\*   - INSERT into orders with a customer_id that matches no row: refused
\*     under fk.
\*   - INSERT of a pair that order_products already holds: refused
\*     (composite primary key).
\* A counter advances only with a committed insert.
Failed(d) == [ok |-> FALSE, rowcount |-> 0, db |-> d]
Done(d, n) == [ok |-> TRUE, rowcount |-> n, db |-> d]

\* variant of execute_delete with ON DELETE CASCADE
execute_delete_cascade(d, s, fk) ==
    IF s.id \notin DOMAIN d.customer THEN Done(d, 0)
    ELSE Done([d EXCEPT !.customer = Drop(@, s.id),
                        !.orders = [o \in (DOMAIN @) \ OrdersOf(d, s.id) |-> @[o]],
                        !.order_products =
                            {p \in @ : p[1] \notin OrdersOf(d, s.id)}], 1)

\* variant of execute_delete that reports a row when none matched
execute_delete_rowcount(d, s, fk) ==
    IF s.id \notin DOMAIN d.customer THEN Done(d, 1)
    ELSE IF fk /\ OrdersOf(d, s.id) # {} THEN Failed(d)
    ELSE Done([d EXCEPT !.customer = Drop(@, s.id)], 1)

\* DELETE FROM customer WHERE id = s.id
execute_delete(d, s, fk) ==
    IF s.id \notin DOMAIN d.customer THEN Done(d, 0)
    ELSE IF fk /\ OrdersOf(d, s.id) # {} THEN Failed(d)
    ELSE Done([d EXCEPT !.customer = Drop(@, s.id)], 1)

\* UPDATE customer SET id = s.to, <columns> = s.row WHERE id = s.id
execute_update(d, s, fk) ==
    IF s.to = s.id THEN Done([d EXCEPT !.customer[s.id] = s.row], 1)
    ELSE IF s.to \in DOMAIN d.customer THEN Failed(d)
    ELSE IF fk /\ OrdersOf(d, s.id) # {} THEN Failed(d)
    ELSE Done([d EXCEPT !.customer = Put(Drop(@, s.id), s.to, s.row),
                        !.next.customer = Max(@, s.to + 1)], 1)

execute(d, s, fk) ==
    CASE s.sql = "insert customer" ->
            Done([d EXCEPT !.customer = Put(@, d.next.customer, s.row),
                           !.next.customer = @ + 1], 1)
      [] s.sql = "update customer" -> execute_update(d, s, fk)
      [] s.sql = "delete customer" -> execute_delete(d, s, fk)
      [] s.sql = "insert products" ->
            Done([d EXCEPT !.products = Put(@, d.next.products, s.row),
                           !.next.products = @ + 1], 1)
      [] s.sql = "insert orders" ->
            IF fk /\ s.row.customer_id \notin DOMAIN d.customer THEN Failed(d)
            ELSE Done([d EXCEPT !.orders = Put(@, d.next.orders, s.row),
                                !.next.orders = @ + 1], 1)
      [] s.sql = "insert order_products" ->
            IF s.pair \in d.order_products THEN Failed(d)
            ELSE IF fk /\ (s.pair[1] \notin DOMAIN d.orders
                           \/ s.pair[2] \notin DOMAIN d.products) THEN Failed(d)
            ELSE Done([d EXCEPT !.order_products = @ \cup {s.pair}], 1)
      [] OTHER -> Failed(d)

\* the statements of a flush, in order, until one fails
RECURSIVE flush(_, _, _)
flush(d, stmts, fk) ==
    IF stmts = <<>> THEN Done(d, 0)
    ELSE LET r == execute(d, Head(stmts), fk)
         IN  IF r.ok THEN flush(r.db, Tail(stmts), fk) ELSE r

\* variant of commit that keeps what a failed flush had written
commit_without_rollback(d, stmts, fk) == flush(d, stmts, fk)

\* db.session.commit(): flush, then publish the working copy; a failed flush
\* rolls the transaction back and raises.
commit(d, stmts, fk) ==
    LET r == flush(d, stmts, fk)
    IN  IF r.ok THEN r ELSE Failed(d)

\* what a handler returns, and the store it leaves
Reply(resp, d) == [response |-> resp, db |-> d]

\* ------------------------------------------------------- customer handlers
\* GET /customers
get_customers(d) ==
    Reply(CustomersResponse({dump_customer(d, i) : i \in DOMAIN d.customer}), d)

\* GET /customers/<id>
get_customer(d, id) ==
    IF id \notin DOMAIN d.customer
    THEN Reply(Response(404, "Error", "Customer not found!"), d)
    ELSE Reply(CustomersResponse({dump_customer(d, id)}), d)

\* POST /customers
add_customer(d, json, fk) ==
    LET customer_data == load(CustomerSchema, json)
        data == customer_data.data
    IN  IF ~customer_data.valid
        THEN Reply(ValidationResponse(customer_data.messages), d)
        ELSE IF ~({"customer_name", "email", "phone"} \subseteq DOMAIN data)
        THEN Reply(ServerError, d)            \* KeyError
        ELSE LET new_customer == [customer_name |-> data["customer_name"],
                                  email |-> data["email"],
                                  phone |-> data["phone"],
                                  address |-> NULL]
                 r == commit(d, <<InsertCustomer(new_customer)>>, fk)
             IN  IF r.ok
                 THEN Reply(Response(201, "Message",
                                     "New customer added successfully!"), r.db)
                 ELSE Reply(ServerError, r.db)

\* variant of setattr_all that resets the attributes the payload lacks
setattr_all_columns(row, data) ==
    [c \in CustomerColumns |-> IF c \in DOMAIN data THEN data[c] ELSE NULL]

\* the setattr loop: every key of the payload is written to the attribute of
\* that name, every other attribute keeps its value (the key "id" is the
\* primary key: update_customer passes it on as the row's new key)
setattr_all(row, data) ==
    [c \in CustomerColumns |-> IF c \in DOMAIN data THEN data[c] ELSE row[c]]

\* PUT /customers/<id>
update_customer(d, id, json, fk) ==
    IF id \notin DOMAIN d.customer
    THEN Reply(Response(404, "Error", "Customer not found"), d)
    ELSE LET customer_data == load(CustomerSchema, json)
             data == customer_data.data
         IN  IF ~customer_data.valid
             THEN Reply(ValidationResponse(customer_data.messages), d)
             ELSE LET to == IF "id" \in DOMAIN data THEN data["id"] ELSE id
                      row == setattr_all(d.customer[id], data)
                      r == commit(d, <<UpdateCustomer(id, to, row)>>, fk)
                  IN  IF r.ok
                      THEN Reply(Response(200, "Message",
                                 "Customer details have been updated"), r.db)
                      ELSE Reply(ServerError, r.db)

\* DELETE /customers/<id>
delete_customer(d, id, fk) ==
    LET result == execute(d, DeleteCustomer(id), fk)
    IN  IF ~result.ok THEN Reply(ServerError, d)      \* IntegrityError
        ELSE IF result.rowcount = 0
        THEN Reply(Response(404, "Message", "Customer not found!"), d)
        ELSE Reply(Response(200, "Messgae",
                            "Customer sucessfully deleted! Wow!"), result.db)


\* -------------------------------------------------------- product handlers
\* POST /products
add_product(d, json, fk) ==
    LET product_data == load(ProductSchema, json)
        data == product_data.data
    IN  IF ~product_data.valid
        THEN Reply(ValidationResponse(product_data.messages), d)
        ELSE IF ~({"product_name", "price"} \subseteq DOMAIN data)
        THEN Reply(ServerError, d)            \* KeyError
        ELSE LET new_product == [product_name |-> data["product_name"],
                                 price |-> data["price"]]
                 r == commit(d, <<InsertProduct(new_product)>>, fk)
             IN  IF r.ok
                 THEN Reply(Response(201, "Message",
                                     "New product added successfully!"), r.db)
                 ELSE Reply(ServerError, r.db)

\* GET /products
get_products(d) ==
    Reply(ProductsResponse({dump_product(d, i) : i \in DOMAIN d.products}), d)

\* ---------------------------------------------------------- order handlers
\* select(Products).where(Products.id == item_id) ... .scalar()
select_product(d, item_id) ==
    IF item_id \in DOMAIN d.products THEN item_id ELSE None

\* variant of order_flush that leaves None out of the collection
order_flush_skip_none(row, order_id, items) ==
    <<InsertOrder(row)>> \o
    [i \in 1..Len(SelectSeq(items, LAMBDA x : x # None)) |->
        InsertOrderProduct(order_id, SelectSeq(items, LAMBDA x : x # None)[i])]

\* variant of order_flush that attaches the first item in place of each
order_flush_first_only(row, order_id, items) ==
    <<InsertOrder(row)>> \o
    (IF None \in Range(items) THEN <<FlushNone>>
     ELSE [i \in 1..Len(items) |-> InsertOrderProduct(order_id, items[1])])

\* The flush of a new Orders object whose products collection is `items`:
\* the orders row first, then the collection. A None in the collection stops
\* the flush (FlushError) before any order_products row is sent; every other
\* entry of the list sends one row, an entry that occurs twice sends two.
order_flush(row, order_id, items) ==
    <<InsertOrder(row)>> \o
    (IF None \in Range(items) THEN <<FlushNone>>
     ELSE [i \in 1..Len(items) |-> InsertOrderProduct(order_id, items[i])])

\* POST /orders
add_order(d, json, fk) ==
    LET order_data == load(OrderSchema, json)
        data == order_data.data
    IN  IF ~order_data.valid
        THEN Reply(ValidationResponse(order_data.messages), d)
        ELSE IF ~({"customer_id", "items"} \subseteq DOMAIN data)
        THEN Reply(ServerError, d)            \* KeyError
        ELSE LET new_order == [order_date |-> today,
                               customer_id |-> data["customer_id"]]
                 items == [i \in 1..Len(data["items"]) |->
                              select_product(d, data["items"][i])]
                 r == commit(d, order_flush(new_order, d.next.orders, items), fk)
             IN  IF r.ok
                 THEN Reply(Response(201, "Message", "New order placed!"), r.db)
                 ELSE Reply(ServerError, r.db)

\* the products collection of an order, loaded through order_products
order_products_of(d, id) ==
    {p \in DOMAIN d.products : <<id, p>> \in d.order_products}

\* GET /order_items/<id>
order_items(d, id) ==
    IF id \notin DOMAIN d.orders
    THEN Reply(ServerError, d)                \* AttributeError on None
    ELSE Reply(ProductsResponse({dump_product(d, p) :
                                     p \in order_products_of(d, id)}), d)

\* GET /
home(d) ==
    Reply(Response(200, "",
          "Welcome to this wild ride on the Flask SQLAlchemy rollercoaster!"), d)

\* ---------------------------------------------------------------- requests
NoJson == [ok |-> <<>>, bad |-> {}]

Json(keys, wrong, values) ==
    [ok |-> [k \in keys |-> values[k]], bad |-> wrong]

\* The JSON bodies sent to a route: every body whose keys all carry a value
\* of the declared type, and every body with up to MaxBad keys of another
\* type (load reads no value of a body it rejects, so the well-typed keys
\* of those carry one fixed value).
WrongSets(fields) == {w \in SUBSET fields : Cardinality(w) \in 1..MaxBad}

CustomerBodies ==
    {Json(keys, {}, [customer_name |-> n, email |-> e, phone |-> p, id |-> i]) :
        keys \in SUBSET CustomerSchema.fields,
        n \in Strings, e \in Strings, p \in Strings, i \in CustomerIds}
    \cup
    {Json(keys \ wrong, wrong, [customer_name |-> StrTab[1], email |-> StrTab[1],
                                phone |-> StrTab[1], id |-> 1]) :
        keys \in SUBSET CustomerSchema.fields,
        wrong \in WrongSets(CustomerSchema.fields)}

ProductBodies ==
    {Json(keys \ wrong, wrong, [product_name |-> StrTab[1], price |-> 10]) :
        keys \in SUBSET {"product_name", "price"},
        wrong \in {{}} \cup WrongSets({"product_name", "price"})}

ItemLists == UNION {[1..n -> ProductIds] : n \in 0..MaxItems}

OrderBodies ==
    {Json(keys, {}, [customer_id |-> c, items |-> l]) :
        keys \in SUBSET {"customer_id", "items"},
        c \in CustomerIds, l \in ItemLists}
    \cup
    {Json(keys \ wrong, wrong, [customer_id |-> 1, items |-> <<>>]) :
        keys \in SUBSET {"customer_id", "items"},
        wrong \in WrongSets({"customer_id"})}

Request(op, id, json) == [op |-> op, id |-> id, json |-> json]

\* The successful write a request made, for the requests that follow it:
\* the id it created or deleted and the body it carried.
NoPrevious == [op |-> "none", id |-> 0, json |-> NoJson]
Written ==
    IF request.op = "add_customer" /\ response.status = 201
    THEN [op |-> "add_customer", id |-> before.next.customer, json |-> request.json]
    ELSE IF request.op = "add_order" /\ response.status = 201
    THEN [op |-> "add_order", id |-> before.next.orders, json |-> request.json]
    ELSE IF request.op = "delete_customer" /\ response.status = 200
    THEN [op |-> "delete_customer", id |-> request.id, json |-> NoJson]
    ELSE NoPrevious

\* A request is served when no other is in progress (requests are handled
\* one at a time, each in its own application context and session).
Idle == request.op = "none"

Serve(req, reply) ==
    /\ Idle
    /\ request' = req
    /\ response' = reply.response
    /\ before' = db
    /\ db' = reply.db
    /\ UNCHANGED <<foreign_keys, previous>>

\* ------------------------------------------------------------------ actions
Init ==
    /\ db = EmptyDb
    /\ foreign_keys \in BOOLEAN
    /\ request = Request("none", 0, NoJson)
    /\ response = Response(0, "", "")
    /\ before = EmptyDb
    /\ previous = NoPrevious

\* The response is sent and the application context of the request is popped
\* (the scoped session is removed); the next request starts from the store.
teardown_appcontext ==
    /\ ~Idle
    /\ request' = Request("none", 0, NoJson)
    /\ response' = Response(0, "", "")
    /\ before' = db
    /\ previous' = Written
    /\ UNCHANGED <<db, foreign_keys>>

GET_home == Serve(Request("home", 0, NoJson), home(db))

GET_customers == Serve(Request("get_customers", 0, NoJson), get_customers(db))

GET_customer ==
    /\ Idle
    /\ \E id \in CustomerIds :
        Serve(Request("get_customer", id, NoJson), get_customer(db, id))

POST_customers ==
    /\ Idle
    /\ db.next.customer <= MaxCustomers
    /\ \E json \in CustomerBodies :
        Serve(Request("add_customer", 0, json),
              add_customer(db, json, foreign_keys))

PUT_customer ==
    /\ Idle
    /\ \E id \in CustomerIds, json \in CustomerBodies :
        Serve(Request("update_customer", id, json),
              update_customer(db, id, json, foreign_keys))

DELETE_customer ==
    /\ Idle
    /\ \E id \in CustomerIds :
        Serve(Request("delete_customer", id, NoJson),
              delete_customer(db, id, foreign_keys))

POST_products ==
    /\ Idle
    /\ db.next.products <= MaxProducts
    /\ \E json \in ProductBodies :
        Serve(Request("add_product", 0, json),
              add_product(db, json, foreign_keys))

GET_products == Serve(Request("get_products", 0, NoJson), get_products(db))

POST_orders ==
    /\ Idle
    /\ db.next.orders <= MaxOrders
    /\ \E json \in OrderBodies :
        Serve(Request("add_order", 0, json),
              add_order(db, json, foreign_keys))

GET_order_items ==
    /\ Idle
    /\ \E id \in OrderIds :
        Serve(Request("order_items", id, NoJson), order_items(db, id))

Next ==
    \/ GET_home
    \/ GET_customers
    \/ GET_customer
    \/ POST_customers
    \/ PUT_customer
    \/ DELETE_customer
    \/ POST_products
    \/ GET_products
    \/ POST_orders
    \/ GET_order_items
    \/ teardown_appcontext

Spec == Init /\ [][Next]_vars

\* ------------------------------------------------------------- properties
Op == request.op
Status == response.status
Body == request.json.ok
Keys == (DOMAIN request.json.ok) \cup request.json.bad
Creates == {"add_customer", "add_product", "add_order"}

SchemaOf(op) ==
    CASE op = "add_product" -> ProductSchema
      [] op = "add_order"   -> OrderSchema
      [] OTHER              -> CustomerSchema

\* the keys of the body that are missing though required, or wrongly typed
Offending == request.json.bad \cup (SchemaOf(Op).required \ Keys)

\* the id a POST gives the row it inserts
NewCustomer == before.next.customer
NewProduct == before.next.products
NewOrder == before.next.orders

SameCustomersExcept(ids) ==
    /\ (DOMAIN db.customer) \ ids = (DOMAIN before.customer) \ ids
    /\ \A i \in (DOMAIN before.customer) \ ids : db.customer[i] = before.customer[i]

\* the store accepts the deletion of customer id
Deletable(id) == ~foreign_keys \/ OrdersOf(before, id) = {}

\* C1 (as stated): for every existing customer id the first DELETE returns
\* 200 and removes the row, and a second DELETE right after it returns 404 and
\* leaves the store as it was.
C1_DeleteTwice_AsStated ==
    Op = "delete_customer" =>
        /\ request.id \in DOMAIN before.customer =>
              Status = 200 /\ request.id \notin DOMAIN db.customer
        /\ (previous.op = "delete_customer" /\ previous.id = request.id) =>
              Status = 404 /\ db = before

\* C1 (amended): for every existing customer id whose deletion the store
\* accepts (no order references it, or the foreign key is not enforced), the
\* first DELETE returns 200 and removes the row; a second DELETE right after
\* a DELETE that returned 200 returns 404 and leaves the store as it was.
C1_DeleteTwice ==
    Op = "delete_customer" =>
        /\ (request.id \in DOMAIN before.customer /\ Deletable(request.id)) =>
              /\ Status = 200
              /\ request.id \notin DOMAIN db.customer
              /\ SameCustomersExcept({request.id})
        /\ (previous.op = "delete_customer" /\ previous.id = request.id) =>
              Status = 404 /\ db = before

C1_Witness ==
    /\ Op = "delete_customer"
    /\ previous.op = "delete_customer"
    /\ previous.id = request.id
    /\ Status = 404
    /\ DOMAIN db.customer # {}

\* the row a PUT with a valid body is to leave at the customer's id
UpdateTarget == IF "id" \in DOMAIN Body THEN Body["id"] ELSE request.id
ValidUpdate ==
    /\ Op = "update_customer"
    /\ request.id \in DOMAIN before.customer
    /\ Offending = {}

ExactOverwrite ==
    /\ UpdateTarget \in DOMAIN db.customer
    /\ \A c \in CustomerColumns :
          db.customer[UpdateTarget][c] =
              IF c \in DOMAIN Body THEN Body[c] ELSE before.customer[request.id][c]
    /\ SameCustomersExcept({request.id, UpdateTarget})
    /\ DOMAIN db.customer =
          ((DOMAIN before.customer) \ {request.id}) \cup {UpdateTarget}
    /\ db.products = before.products
    /\ db.orders = before.orders
    /\ db.order_products = before.order_products

\* the store refuses the new primary key of an update
KeyRefused ==
    /\ UpdateTarget # request.id
    /\ \/ UpdateTarget \in DOMAIN before.customer
       \/ foreign_keys /\ OrdersOf(before, request.id) # {}

\* C2 (as stated): for every existing customer a PUT with a valid body
\* overwrites exactly the fields present in the body and leaves the absent
\* ones, and every other customer, unchanged; a body of customer_name alone
\* returns 200.
C2_PartialUpdate_AsStated ==
    ValidUpdate =>
        /\ ExactOverwrite
        /\ DOMAIN Body = {"customer_name"} => Status = 200

\* C2 (amended): for every existing customer a PUT with a valid body returns
\* 200, overwrites exactly the fields present in the body and leaves the
\* absent ones, and every other row, unchanged, unless the body carries an id
\* other than the customer's that the store refuses (it belongs to another
\* customer, or orders reference the customer under an enforced foreign key):
\* then it returns 500 and changes nothing. A body of customer_name alone
\* always returns 200.
C2_PartialUpdate ==
    ValidUpdate =>
        /\ ~KeyRefused => Status = 200 /\ ExactOverwrite
        /\ KeyRefused => Status = 500 /\ Rows(db) = Rows(before)
        /\ DOMAIN Body = {"customer_name"} => Status = 200

C2_Witness ==
    /\ ValidUpdate
    /\ DOMAIN Body = {"customer_name"}
    /\ Status = 200
    /\ Body["customer_name"] # before.customer[request.id].customer_name
    /\ db.customer[request.id].email # NULL
    /\ Cardinality(DOMAIN db.customer) > 1

\* the fields of a customer body as a GET is to return them
Submitted(json, f) == IF f \in DOMAIN json THEN json[f] ELSE NULL

\* C3: every valid customer body (customer_name present, email and phone
\* present or absent) is answered 201 and adds exactly one customer, and a GET
\* of the new id right after returns the submitted customer_name, email and
\* phone.
C3_RoundTrip ==
    /\ (Op = "add_customer" /\ Offending = {}) =>
          /\ Status = 201
          /\ DOMAIN db.customer = (DOMAIN before.customer) \cup {NewCustomer}
          /\ NewCustomer \notin DOMAIN before.customer
          /\ SameCustomersExcept({NewCustomer})
    /\ (Op = "get_customer" /\ previous.op = "add_customer"
                            /\ previous.id = request.id) =>
          /\ Status = 200
          /\ response.customers =
                {[id |-> request.id,
                  customer_name |-> Submitted(previous.json.ok, "customer_name"),
                  email |-> Submitted(previous.json.ok, "email"),
                  phone |-> Submitted(previous.json.ok, "phone")]}

\* C4: GET, PUT and DELETE of an id that matches no customer each return 404
\* with the body {"Error": "Customer not found!"} and leave the store
\* unchanged.
C4_NotFound ==
    (Op \in {"get_customer", "update_customer", "delete_customer"}
        /\ request.id \notin DOMAIN before.customer) =>
        /\ Status = 404
        /\ response.key = "Error"
        /\ response.text = "Customer not found!"
        /\ db = before

\* an order body that names an existing customer and two existing products
PairOrder(json, d) ==
    /\ json.bad = {}
    /\ DOMAIN json.ok = {"customer_id", "items"}
    /\ json.ok["customer_id"] \in DOMAIN d.customer
    /\ Len(json.ok["items"]) = 2
    /\ Range(json.ok["items"]) \subseteq DOMAIN d.products

OrderPlaced(items) ==
    /\ Status = 201
    /\ NewOrder \notin DOMAIN before.orders
    /\ DOMAIN db.orders = (DOMAIN before.orders) \cup {NewOrder}
    /\ db.orders[NewOrder].customer_id = Body["customer_id"]
    /\ \A o \in DOMAIN before.orders : db.orders[o] = before.orders[o]
    /\ db.order_products =
          before.order_products \cup {<<NewOrder, p>> : p \in items}

ItemsReturned(items) ==
    /\ Status = 200
    /\ {r.id : r \in response.products} = items

\* C5 (as stated): for every existing customer and every pair p1, p2 of
\* existing products, POST /orders with items [p1, p2] returns 201 and creates
\* one order, and a GET /order_items of the new id right after returns exactly
\* the products {p1, p2}.
C5_OrderItems_AsStated ==
    /\ (Op = "add_order" /\ PairOrder(request.json, before)) =>
          OrderPlaced(Range(Body["items"]))
    /\ (Op = "order_items" /\ previous.op = "add_order"
                           /\ previous.id = request.id
                           /\ PairOrder(previous.json, before)) =>
          ItemsReturned(Range(previous.json.ok["items"]))

Distinct(items) == Cardinality(Range(items)) = Len(items)

\* C5 (amended): for every existing customer and every pair p1, p2 of
\* distinct existing products, POST /orders with items [p1, p2] returns 201
\* and creates one order with exactly the rows (order, p1) and (order, p2),
\* and a GET /order_items of the new id right after returns exactly the
\* products {p1, p2}.
C5_OrderItems ==
    /\ (Op = "add_order" /\ PairOrder(request.json, before)
                         /\ Distinct(Body["items"])) =>
          OrderPlaced(Range(Body["items"]))
    /\ (Op = "order_items" /\ previous.op = "add_order"
                           /\ previous.id = request.id
                           /\ PairOrder(previous.json, before)) =>
          ItemsReturned(Range(previous.json.ok["items"]))

C5_Witness ==
    /\ Op = "order_items"
    /\ previous.op = "add_order"
    /\ previous.id = request.id
    /\ PairOrder(previous.json, before)
    /\ previous.json.ok["items"][1] # previous.json.ok["items"][2]
    /\ Cardinality(response.products) = 2

FullEffect ==
    CASE Op = "add_customer" ->
            /\ DOMAIN db.customer = (DOMAIN before.customer) \cup {NewCustomer}
            /\ NewCustomer \notin DOMAIN before.customer
            /\ \A f \in {"customer_name", "email", "phone"} :
                  f \in DOMAIN Body /\ db.customer[NewCustomer][f] = Body[f]
            /\ SameCustomersExcept({NewCustomer})
            /\ Rows(db) = [Rows(before) EXCEPT !.customer = db.customer]
      [] Op = "update_customer" ->
            /\ UpdateTarget \in DOMAIN db.customer
            /\ \A f \in (DOMAIN Body) \ {"id"} :
                  db.customer[UpdateTarget][f] = Body[f]
            /\ SameCustomersExcept({request.id, UpdateTarget})
            /\ Rows(db) = [Rows(before) EXCEPT !.customer = db.customer]
      [] Op = "delete_customer" ->
            /\ request.id \in DOMAIN before.customer
            /\ request.id \notin DOMAIN db.customer
            /\ SameCustomersExcept({request.id})
            /\ Rows(db) = [Rows(before) EXCEPT !.customer = db.customer]
      [] Op = "add_product" ->
            /\ DOMAIN db.products = (DOMAIN before.products) \cup {NewProduct}
            /\ NewProduct \notin DOMAIN before.products
            /\ db.products[NewProduct] = [product_name |-> Body["product_name"],
                                          price |-> Body["price"]]
            /\ \A i \in DOMAIN before.products : db.products[i] = before.products[i]
            /\ Rows(db) = [Rows(before) EXCEPT !.products = db.products]
      [] Op = "add_order" ->
            /\ DOMAIN db.orders = (DOMAIN before.orders) \cup {NewOrder}
            /\ NewOrder \notin DOMAIN before.orders
            /\ db.orders[NewOrder].customer_id = Body["customer_id"]
            /\ \A o \in DOMAIN before.orders : db.orders[o] = before.orders[o]
            /\ db.order_products = before.order_products \cup
                  {<<NewOrder, p>> : p \in Range(Body["items"])}
            /\ db.customer = before.customer
            /\ db.products = before.products
      [] OTHER -> Rows(db) = Rows(before)

\* C7: every handler is all-or-nothing. A request that returns 200 or 201 has
\* all of its writes in the store; a request that returns an error status
\* leaves the rows of the store as they were.
C7_AllOrNothing ==
    ~Idle =>
        /\ Status \in {200, 201, 400, 404, 500}
        /\ Status \in {200, 201} => FullEffect
        /\ Status \notin {200, 201} => Rows(db) = Rows(before)

C7_Witness ==
    /\ Op = "add_order"
    /\ Status = 500
    /\ request.json.bad = {}
    /\ DOMAIN Body = {"customer_id", "items"}
    /\ Body["customer_id"] \in DOMAIN before.customer
    /\ \E i, j \in 1..Len(Body["items"]) :
          /\ Body["items"][i] \in DOMAIN before.products
          /\ Body["items"][j] \notin DOMAIN before.products
    /\ Rows(db) = Rows(before)

\* C8: every successful PUT /customers/id and DELETE /customers/id returns
\* 200 and every successful POST returns 201, each with a body that is an
\* object with the single key "Message".
C8_MessageBody ==
    Status \in {200, 201} =>
        /\ Op \in {"update_customer", "delete_customer"} =>
              Status = 200 /\ response.key = "Message"
        /\ Op \in Creates => Status = 201 /\ response.key = "Message"

\* an order body, valid for the schema, whose items name a missing product
MissingItemOrder ==
    /\ Op = "add_order"
    /\ request.json.bad = {}
    /\ DOMAIN Body = {"customer_id", "items"}
    /\ ~(Range(Body["items"]) \subseteq DOMAIN before.products)

OwnerDelete ==
    /\ Op = "delete_customer"
    /\ request.id \in DOMAIN before.customer
    /\ OrdersOf(before, request.id) # {}

NoCascade ==
    /\ db.orders = before.orders
    /\ db.order_products = before.order_products
    /\ db.products = before.products
    /\ SameCustomersExcept({request.id})

\* C10 (as stated): DELETE of a customer that owns orders removes the
\* customer row and nothing else: the orders and the order_products rows stay
\* and the orders still carry the deleted customer's id.
C10_NoCascade_AsStated ==
    OwnerDelete => request.id \notin DOMAIN db.customer /\ NoCascade

\* C10 (amended): DELETE of a customer that owns orders never removes or
\* changes an orders or order_products row. Where the store enforces the
\* foreign key of orders.customer_id the delete is refused: the response is
\* 500 and the customer row stays. Where it does not, the response is 200,
\* only the customer row is removed and the orders still carry its id.
C10_NoCascade ==
    OwnerDelete =>
        /\ NoCascade
        /\ foreign_keys => Status = 500 /\ db = before
        /\ ~foreign_keys =>
              /\ Status = 200
              /\ request.id \notin DOMAIN db.customer
              /\ \A o \in OrdersOf(before, request.id) :
                    db.orders[o].customer_id = request.id

C10_Witness ==
    /\ OwnerDelete
    /\ Status = 200
    /\ request.id \notin DOMAIN db.customer
    /\ \E o \in OrdersOf(db, request.id) : \E p \in db.order_products : p[1] = o

=============================================================================
